---- MODULE Spec2Model ----
(***************************************************************************)
(* Anti-Screensaver Mouse Mover: the Movement Engine (core/mouse_mover.py) *)
(* and the State Manager (core/state.py), driven by their callers and by   *)
(* the timer, the single-instance lock (core/instance_lock.py) and the     *)
(* configuration manager (core/config.py).  Every action is one whole call *)
(* of a public method or one whole timer callback; the calls a method      *)
(* makes are operators applied to a record that holds the fields of the    *)
(* objects involved.                                                       *)
(***************************************************************************)
EXTENDS Integers, Sequences, FiniteSets, TLC

VARIABLES
    timer,               \* MovementEngine._timer: <<>> is None, else <<QTimer>>
    current_interval,    \* MovementEngine._current_interval (seconds)
    pattern_state,       \* MovementEngine._pattern_state
    state,               \* InMemoryStateManager._state (ApplicationState)
    consecutive_errors,  \* InMemoryStateManager._consecutive_errors
    subscribers,         \* InMemoryStateManager._subscribers
    clock,               \* number of datetime.now() readings taken so far
    last,                \* the call that ended last: method, argument, error, signals
    run,                 \* history: what happened since the last successful start
    displacement,        \* history: sum of the deltas of all successful moves
    calls,               \* history: results of consecutive get_next_movement_pattern calls
    snapshot,            \* the ApplicationState object a caller holds from get_state()
    lock_file,           \* the instance whose process holds the lock file, 0 when free
    locks,               \* per application instance: FileLock._lock and _is_acquired
    lock_calls,          \* history: calls of InterProcessLock.acquire made so far
    files,               \* the configuration file and its backup: None when absent
    config_call,         \* the Configuration given to the last save / returned by the last load
    main_window,         \* MainWindow._is_running and the value of its interval slider
    tray_icon,           \* TrayIcon._is_running and TrayIcon._interval
    controller_config,   \* ApplicationController._config
    delivered            \* history: the flags delivered to the observing subscriber

vars == <<timer, current_interval, pattern_state, state, consecutive_errors,
          subscribers, clock, last, run, displacement, calls, snapshot,
          lock_file, locks, lock_calls, files, config_call,
          main_window, tray_icon, controller_config, delivered>>

guiVars == <<main_window, tray_icon, controller_config>>

engineVars == <<timer, current_interval, pattern_state, state, consecutive_errors,
                subscribers, clock, run, displacement, calls, snapshot,
                main_window, tray_icon, controller_config, delivered>>

lockVars == <<lock_file, locks, lock_calls>>

configVars == <<files, config_call>>

progVars == <<timer, current_interval, pattern_state, state, consecutive_errors,
              subscribers>>

----------------------------------------------------------------------------
(* Bounds of the model *)

MaxClock == 10
MaxCalls == 3
MaxDirectClock == 6
MaxSnapshotClock == 4
MaxReentrantClock == 3
MaxLockCalls == 4
MaxLiveClock == 8
MaxObserverClock == 4
MaxControllerClock == 7

(* Program constants *)

MIN_INTERVAL == 10
MAX_INTERVAL == 300
DEFAULT_INTERVAL == 30
MAX_CONSECUTIVE_ERRORS == 5
MS_PER_SECOND == 1000

(* Inputs *)

IntervalInputs ==
    {MIN_INTERVAL - 1, MIN_INTERVAL, MAX_INTERVAL, MAX_INTERVAL + 1}

Callbacks == {"cb1", "cb2"}

(* the callbacks that raise when they are invoked *)
RaisingCallbacks == {"cb2"}

ErrorMessages == {<<>>, <<"Mouse movement failed">>}

None == <<>>

(* the application instances (processes) that share one lock file *)
Instances == {1, 2}

(* the subscriber whose notifications are recorded *)
Observer == "cb0"

(* callbacks whose body calls unsubscribe_state_change: "cb3" removes *)
(* itself, "cb4" removes "cb1"                                        *)
ReentrantCallbacks == {"cb1", "cb3", "cb4"}

Unsubscribes(callback) ==
    CASE callback = "cb3" -> <<"cb3">>
      [] callback = "cb4" -> <<"cb1">>
      [] OTHER -> None

----------------------------------------------------------------------------
(* models.py *)

ApplicationState(r, lmt, mc, ec, st, id) ==
    [is_running |-> r, last_movement_timestamp |-> lmt, movement_count |-> mc,
     error_count |-> ec, start_timestamp |-> st, instance_id |-> id]

(* a reset that also forgets when the cursor was last moved *)
reset_counts_clears_timestamp(a) ==
    [a EXCEPT !.movement_count = 0, !.error_count = 0,
              !.last_movement_timestamp = <<>>]

reset_counts(a) == [a EXCEPT !.movement_count = 0, !.error_count = 0]

MouseMovement(dx, dy, ts, ok, msg) ==
    [delta_x |-> dx, delta_y |-> dy, timestamp |-> ts, success |-> ok,
     error_message |-> msg]

(* One signal emission or subscriber invocation, as a caller can observe it: *)
(* armed is MovementEngine.is_running(), running is                          *)
(* InMemoryStateManager.is_running() and errors is get_consecutive_errors()  *)
(* at the moment of the emission.                                            *)
Event(kind, cb, flag, delta, msg, s) ==
    [kind |-> kind, cb |-> cb, flag |-> flag, delta |-> delta, msg |-> msg,
     armed |-> s.timer # <<>> /\ s.timer[1].active, running |-> s.state.is_running,
     errors |-> s.consecutive_errors]

----------------------------------------------------------------------------
(* The fields of both objects during a call.  raised is the exception in   *)
(* flight ("none" when there is none), events the emissions so far, and    *)
(* stop_entry the ApplicationState found by InMemoryStateManager.stop.     *)

Cur ==
    [timer |-> timer, current_interval |-> current_interval,
     pattern_state |-> pattern_state, state |-> state,
     consecutive_errors |-> consecutive_errors, subscribers |-> subscribers,
     clock |-> clock, raised |-> "none", events |-> <<>>, stop_entry |-> <<>>,
     auto_stop |-> FALSE, result |-> FALSE,
     main_window |-> main_window, tray_icon |-> tray_icon,
     config |-> controller_config, files |-> files]

Raise(s, exc) == [s EXCEPT !.raised = exc]

Emit(s, e) == [s EXCEPT !.events = Append(@, e)]

(* datetime.now(): the reading is s.clock, and the next reading is later *)
Now(s) == s.clock
Advance(s) == [s EXCEPT !.clock = @ + 1]

----------------------------------------------------------------------------
(* core/mouse_mover.py and core/state.py *)

is_running(s) == s.timer # None /\ s.timer[1].active

QTimer_start(ms) == <<[active |-> TRUE, interval |-> ms]>>

(* a subscribe without the membership test *)
subscribe_state_change_again(s, callback) ==
    [s EXCEPT !.subscribers = Append(@, callback)]

subscribe_state_change(s, callback) ==
    IF \A i \in 1..Len(s.subscribers) : s.subscribers[i] # callback
    THEN [s EXCEPT !.subscribers = Append(@, callback)]
    ELSE s

unsubscribe_state_change(s, callback) ==
    IF \E i \in 1..Len(s.subscribers) : s.subscribers[i] = callback
    THEN LET i == CHOOSE j \in 1..Len(s.subscribers) :
                      /\ s.subscribers[j] = callback
                      /\ \A k \in 1..(j - 1) : s.subscribers[k] # callback
         IN [s EXCEPT !.subscribers =
                [k \in 1..(Len(@) - 1) |-> IF k < i THEN @[k] ELSE @[k + 1]]]
    ELSE s

(* a handler that updates the main window and forgets the tray icon *)
on_state_changed_window_only(s, flag) ==
    [s EXCEPT !.main_window.is_running = flag]

(* ApplicationController._on_state_changed: MainWindow.set_running_state *)
(* and TrayIcon.set_running_state                                        *)
on_state_changed(s, flag) ==
    [s EXCEPT !.main_window.is_running = flag, !.tray_icon.is_running = flag]

(* what the callback does when it is called with flag *)
callback_body(s, callback, flag) ==
    IF callback = "on_state_changed"
    THEN on_state_changed(s, flag)
    ELSE IF Unsubscribes(callback) # None
    THEN unsubscribe_state_change(s, Unsubscribes(callback)[1])
    ELSE s

(* callback(is_running) inside the try of _notify_state_change: the body  *)
(* of the callback runs (it may unsubscribe a callback), a callback that   *)
(* raises is caught and reported, and the loop goes on                     *)
invoke_callback(s, callback, flag) ==
    LET s1 == Emit(s, Event("notify", callback, flag, <<0, 0>>, "", s))
        s2 == callback_body(s1, callback, flag)
    IN IF callback \in RaisingCallbacks
       THEN Emit(s2, Event("subscriber_error", callback, flag, <<0, 0>>, "", s2))
       ELSE s2

(* the for loop of _notify_state_change from position i of the list on *)
RECURSIVE notify_from(_, _, _)
notify_from(s, flag, i) ==
    IF i > Len(s.subscribers)
    THEN s
    ELSE notify_from(invoke_callback(s, s.subscribers[i], flag), flag, i + 1)

(* a notification without the try: the first callback that raises ends it *)
RECURSIVE notify_unguarded_from(_, _, _)
notify_unguarded_from(s, flag, i) ==
    IF i > Len(s.subscribers)
    THEN s
    ELSE LET s1 == Emit(s, Event("notify", s.subscribers[i], flag, <<0, 0>>, "", s))
         IN IF s.subscribers[i] \in RaisingCallbacks
            THEN Raise(s1, "Exception")
            ELSE notify_unguarded_from(s1, flag, i + 1)

notify_state_change_unguarded(s, flag) == notify_unguarded_from(s, flag, 1)

notify_state_change(s, flag) == notify_from(s, flag, 1)

(* a start that keeps the consecutive-error counter of the previous run *)
InMemoryStateManager_start_keeps_errors(s) ==
    IF s.state.is_running
    THEN Raise(s, "StateError")
    ELSE LET s1 == [s EXCEPT !.state = reset_counts(
                        [@ EXCEPT !.is_running = TRUE,
                                  !.start_timestamp = <<Now(s)>>])]
         IN notify_state_change(Advance(s1), TRUE)

(* a start that notifies before it looks at the state *)
InMemoryStateManager_start_notifies_first(s) ==
    LET s0 == notify_state_change(s, TRUE)
    IN IF s0.state.is_running
       THEN Raise(s0, "StateError")
       ELSE [Advance(s0) EXCEPT !.state = reset_counts(
                        [@ EXCEPT !.is_running = TRUE,
                                  !.start_timestamp = <<Now(s0)>>]),
                                !.consecutive_errors = 0]

InMemoryStateManager_start(s) ==
    IF s.state.is_running
    THEN Raise(s, "StateError")
    ELSE LET s1 == [s EXCEPT !.state = reset_counts(
                        [@ EXCEPT !.is_running = TRUE,
                                  !.start_timestamp = <<Now(s)>>]),
                             !.consecutive_errors = 0]
         IN notify_state_change(Advance(s1), TRUE)

(* a stop that also resets the diagnostic counters *)
InMemoryStateManager_stop_resets(s) ==
    IF ~ s.state.is_running
    THEN Raise(s, "StateError")
    ELSE LET s1 == [s EXCEPT !.stop_entry = <<s.state>>,
                             !.state = reset_counts([@ EXCEPT !.is_running = FALSE])]
         IN notify_state_change(s1, FALSE)

InMemoryStateManager_stop(s) ==
    IF ~ s.state.is_running
    THEN Raise(s, "StateError")
    ELSE LET s1 == [s EXCEPT !.stop_entry = <<s.state>>,
                             !.state = [@ EXCEPT !.is_running = FALSE]]
         IN notify_state_change(s1, FALSE)

(* a success that leaves the consecutive-error counter alone *)
record_movement_success_keeps_streak(s, movement) ==
    [s EXCEPT !.state = [@ EXCEPT !.movement_count = @ + 1,
                                  !.last_movement_timestamp = <<movement.timestamp>>]]

record_movement_success(s, movement) ==
    [s EXCEPT !.state = [@ EXCEPT !.movement_count = @ + 1,
                                  !.last_movement_timestamp = <<movement.timestamp>>],
              !.consecutive_errors = 0]

(* a failure that stops the manager itself when the threshold is reached *)
record_movement_failure_stops(s, movement) ==
    [s EXCEPT !.state = [@ EXCEPT !.error_count = @ + 1,
                                  !.is_running = @ /\ s.consecutive_errors + 1 < 5],
              !.consecutive_errors = @ + 1]

(* a failure counted as a movement *)
record_movement_failure_miscount(s, movement) ==
    [s EXCEPT !.state = [@ EXCEPT !.movement_count = @ + 1],
              !.consecutive_errors = @ + 1]

(* a failure that is counted in error_count only *)
record_movement_failure_no_streak(s, movement) ==
    [s EXCEPT !.state = [@ EXCEPT !.error_count = @ + 1]]

(* the state after the call; the value returned is should_auto_stop(that state) *)
record_movement_failure(s, movement) ==
    [s EXCEPT !.state = [@ EXCEPT !.error_count = @ + 1],
              !.consecutive_errors = @ + 1]

(* a threshold that must be exceeded, not reached *)
should_auto_stop_above(s) == s.consecutive_errors > MAX_CONSECUTIVE_ERRORS

should_auto_stop(s) == s.consecutive_errors >= MAX_CONSECUTIVE_ERRORS

(* a start that leaves its timer armed when the State Manager refuses *)
MovementEngine_start_leaves_timer(s, interval_seconds) ==
    IF is_running(s)
    THEN Raise(s, "EngineError")
    ELSE IF interval_seconds < MIN_INTERVAL \/ interval_seconds > MAX_INTERVAL
    THEN Raise(s, "EngineError")
    ELSE LET s1 == [s EXCEPT !.timer = QTimer_start(interval_seconds * MS_PER_SECOND),
                             !.current_interval = interval_seconds,
                             !.pattern_state = 0]
             s2 == InMemoryStateManager_start(s1)
         IN IF s2.raised # "none"
            THEN [s2 EXCEPT !.raised = "EngineError"]
            ELSE s2

(* a start that does not reset the pattern *)
MovementEngine_start_keeps_phase(s, interval_seconds) ==
    IF is_running(s)
    THEN Raise(s, "EngineError")
    ELSE IF interval_seconds < MIN_INTERVAL \/ interval_seconds > MAX_INTERVAL
    THEN Raise(s, "EngineError")
    ELSE LET s1 == [s EXCEPT !.timer = QTimer_start(interval_seconds * MS_PER_SECOND),
                             !.current_interval = interval_seconds]
             s2 == InMemoryStateManager_start(s1)
         IN IF s2.raised # "none"
            THEN [s2 EXCEPT !.timer = None, !.raised = "EngineError"]
            ELSE s2

(* a start whose range check is off by one at both ends *)
MovementEngine_start_loose_range(s, interval_seconds) ==
    IF is_running(s)
    THEN Raise(s, "EngineError")
    ELSE IF interval_seconds < MIN_INTERVAL - 1 \/ interval_seconds > MAX_INTERVAL + 1
    THEN Raise(s, "EngineError")
    ELSE LET s1 == [s EXCEPT !.timer = QTimer_start(interval_seconds * MS_PER_SECOND),
                             !.current_interval = interval_seconds,
                             !.pattern_state = 0]
             s2 == InMemoryStateManager_start(s1)
         IN IF s2.raised # "none"
            THEN [s2 EXCEPT !.timer = None, !.raised = "EngineError"]
            ELSE s2

(* a start without the already-running check *)
MovementEngine_start_no_guard(s, interval_seconds) ==
    IF interval_seconds < MIN_INTERVAL \/ interval_seconds > MAX_INTERVAL
    THEN Raise(s, "EngineError")
    ELSE LET s1 == [s EXCEPT !.timer = QTimer_start(interval_seconds * MS_PER_SECOND),
                             !.current_interval = interval_seconds,
                             !.pattern_state = 0]
             s2 == InMemoryStateManager_start(s1)
         IN IF s2.raised # "none"
            THEN [s2 EXCEPT !.timer = None, !.raised = "EngineError"]
            ELSE s2

(* a start that calls the State Manager first and arms the timer after *)
MovementEngine_start_state_first(s, interval_seconds) ==
    IF is_running(s)
    THEN Raise(s, "EngineError")
    ELSE IF interval_seconds < MIN_INTERVAL \/ interval_seconds > MAX_INTERVAL
    THEN Raise(s, "EngineError")
    ELSE LET s1 == [s EXCEPT !.current_interval = interval_seconds,
                             !.pattern_state = 0]
             s2 == InMemoryStateManager_start(s1)
         IN IF s2.raised # "none"
            THEN [s2 EXCEPT !.raised = "EngineError"]
            ELSE [s2 EXCEPT !.timer = QTimer_start(interval_seconds * MS_PER_SECOND)]

MovementEngine_start(s, interval_seconds) ==
    IF is_running(s)
    THEN Raise(s, "EngineError")
    ELSE IF interval_seconds < MIN_INTERVAL \/ interval_seconds > MAX_INTERVAL
    THEN Raise(s, "EngineError")
    ELSE LET s1 == [s EXCEPT !.timer = QTimer_start(interval_seconds * MS_PER_SECOND),
                             !.current_interval = interval_seconds,
                             !.pattern_state = 0]
             s2 == InMemoryStateManager_start(s1)
         IN IF s2.raised # "none"
            THEN [s2 EXCEPT !.timer = None, !.raised = "EngineError"]
            ELSE s2

(* a stop without the not-running check *)
MovementEngine_stop_no_guard(s) ==
    LET s1 == [s EXCEPT !.timer = None]
        s2 == InMemoryStateManager_stop(s1)
    IN IF s2.raised # "none" THEN Raise(s2, "EngineError") ELSE s2

(* a stop that disarms the timer and forgets the State Manager *)
MovementEngine_stop_keeps_state(s) ==
    IF ~ is_running(s)
    THEN Raise(s, "EngineError")
    ELSE [s EXCEPT !.timer = None]

(* a stop that lets the State Manager's own error through *)
MovementEngine_stop_unwrapped(s) ==
    IF ~ is_running(s)
    THEN Raise(s, "EngineError")
    ELSE InMemoryStateManager_stop([s EXCEPT !.timer = None])

(* a stop that tells the State Manager and leaves the timer armed *)
MovementEngine_stop_leaves_timer(s) ==
    IF ~ is_running(s)
    THEN Raise(s, "EngineError")
    ELSE LET s2 == InMemoryStateManager_stop(s)
         IN IF s2.raised # "none" THEN Raise(s2, "EngineError") ELSE s2

(* a stop that calls the State Manager first and disarms the timer after *)
MovementEngine_stop_state_first(s) ==
    IF ~ is_running(s)
    THEN Raise(s, "EngineError")
    ELSE LET s1 == InMemoryStateManager_stop(s)
         IN IF s1.raised # "none"
            THEN Raise(s1, "EngineError")
            ELSE [s1 EXCEPT !.timer = None]

MovementEngine_stop(s) ==
    IF ~ is_running(s)
    THEN Raise(s, "EngineError")
    ELSE LET s1 == [s EXCEPT !.timer = None]
             s2 == InMemoryStateManager_stop(s1)
         IN IF s2.raised # "none" THEN Raise(s2, "EngineError") ELSE s2

(* an update that stores the interval and leaves the armed timer alone *)
update_interval_stores_only(s, interval_seconds) ==
    IF interval_seconds < MIN_INTERVAL \/ interval_seconds > MAX_INTERVAL
    THEN Raise(s, "EngineError")
    ELSE [s EXCEPT !.current_interval = interval_seconds]

(* an update that stores the interval before it checks the range *)
update_interval_stores_first(s, interval_seconds) ==
    LET s1 == [s EXCEPT !.current_interval = interval_seconds]
    IN IF interval_seconds < MIN_INTERVAL \/ interval_seconds > MAX_INTERVAL
       THEN Raise(s1, "EngineError")
       ELSE IF is_running(s1) /\ s1.timer # None
            THEN [s1 EXCEPT !.timer[1].interval = interval_seconds * MS_PER_SECOND]
            ELSE s1

(* an update that hands the seconds to the timer as milliseconds *)
update_interval_seconds_as_ms(s, interval_seconds) ==
    IF interval_seconds < MIN_INTERVAL \/ interval_seconds > MAX_INTERVAL
    THEN Raise(s, "EngineError")
    ELSE LET s1 == [s EXCEPT !.current_interval = interval_seconds]
         IN IF is_running(s1) /\ s1.timer # None
            THEN [s1 EXCEPT !.timer[1].interval = interval_seconds]
            ELSE s1

update_interval(s, interval_seconds) ==
    IF interval_seconds < MIN_INTERVAL \/ interval_seconds > MAX_INTERVAL
    THEN Raise(s, "EngineError")
    ELSE LET s1 == [s EXCEPT !.current_interval = interval_seconds]
         IN IF is_running(s1) /\ s1.timer # None
            THEN [s1 EXCEPT !.timer[1].interval = interval_seconds * MS_PER_SECOND]
            ELSE s1

(* a return stroke with a sign slip *)
get_next_movement_pattern_slip(s) ==
    IF s.pattern_state = 0 THEN <<1, 1>> ELSE <<-1, 1>>

get_next_movement_pattern(s) ==
    IF s.pattern_state = 0 THEN <<1, 1>> ELSE <<-1, -1>>

(* IMouseController.move: the controller decides success and the message *)
move(s, delta, ok, msg) ==
    MouseMovement(delta[1], delta[2], Now(s), ok, IF ok THEN None ELSE msg)

(* a tick whose auto-stop is not inside a try *)
execute_movement_unguarded(s, ok, msg) ==
    LET delta == get_next_movement_pattern(s)
        movement == move(s, delta, ok, msg)
        s0 == Advance(s)
    IN IF movement.success
       THEN LET s1 == record_movement_success(s0, movement)
                s2 == Emit(s1, Event("movement_executed", "", FALSE, delta, "", s1))
            IN [s2 EXCEPT !.pattern_state = 1 - @]
       ELSE LET s1 == record_movement_failure(s0, movement)
                error_msg == IF movement.error_message # None
                             THEN movement.error_message[1] ELSE "Unknown error"
                s2 == Emit(s1, Event("movement_failed", "", FALSE, delta, error_msg, s1))
            IN IF should_auto_stop(s1)
               THEN LET s3 == MovementEngine_stop(s2)
                    IN IF s3.raised # "none"
                       THEN s3
                       ELSE [Emit(s3, Event("auto_stopped", "", FALSE, <<0, 0>>, "", s3))
                                EXCEPT !.auto_stop = TRUE]
               ELSE s2

(* a tick that advances the pattern whether the move succeeded or not *)
execute_movement_advances_always(s, ok, msg) ==
    LET delta == get_next_movement_pattern(s)
        movement == move(s, delta, ok, msg)
        s0 == [Advance(s) EXCEPT !.pattern_state = 1 - @]
    IN IF movement.success
       THEN LET s1 == record_movement_success(s0, movement)
            IN Emit(s1, Event("movement_executed", "", FALSE, delta, "", s1))
       ELSE LET s1 == record_movement_failure(s0, movement)
                error_msg == IF movement.error_message # None
                             THEN movement.error_message[1] ELSE "Unknown error"
                s2 == Emit(s1, Event("movement_failed", "", FALSE, delta, error_msg, s1))
            IN IF should_auto_stop(s1)
               THEN LET s3 == MovementEngine_stop(s2)
                    IN IF s3.raised # "none"
                       THEN [s3 EXCEPT !.raised = "none"]
                       ELSE [Emit(s3, Event("auto_stopped", "", FALSE, <<0, 0>>, "", s3))
                                EXCEPT !.auto_stop = TRUE]
               ELSE s2

(* a tick that emits auto_stopped before it stops *)
execute_movement_announces_first(s, ok, msg) ==
    LET delta == get_next_movement_pattern(s)
        movement == move(s, delta, ok, msg)
        s0 == Advance(s)
    IN IF movement.success
       THEN LET s1 == record_movement_success(s0, movement)
                s2 == Emit(s1, Event("movement_executed", "", FALSE, delta, "", s1))
            IN [s2 EXCEPT !.pattern_state = 1 - @]
       ELSE LET s1 == record_movement_failure(s0, movement)
                error_msg == IF movement.error_message # None
                             THEN movement.error_message[1] ELSE "Unknown error"
                s2 == Emit(s1, Event("movement_failed", "", FALSE, delta, error_msg, s1))
            IN IF should_auto_stop(s1)
               THEN LET s3 == MovementEngine_stop(
                                 Emit(s2, Event("auto_stopped", "", FALSE, <<0, 0>>, "", s2)))
                    IN IF s3.raised # "none"
                       THEN [s3 EXCEPT !.raised = "none"]
                       ELSE [s3 EXCEPT !.auto_stop = TRUE]
               ELSE s2

(* a tick that never stops the engine *)
execute_movement_never_stops(s, ok, msg) ==
    LET delta == get_next_movement_pattern(s)
        movement == move(s, delta, ok, msg)
        s0 == Advance(s)
    IN IF movement.success
       THEN LET s1 == record_movement_success(s0, movement)
                s2 == Emit(s1, Event("movement_executed", "", FALSE, delta, "", s1))
            IN [s2 EXCEPT !.pattern_state = 1 - @]
       ELSE LET s1 == record_movement_failure(s0, movement)
                error_msg == IF movement.error_message # None
                             THEN movement.error_message[1] ELSE "Unknown error"
            IN Emit(s1, Event("movement_failed", "", FALSE, delta, error_msg, s1))

execute_movement(s, ok, msg) ==
    LET delta == get_next_movement_pattern(s)
        movement == move(s, delta, ok, msg)
        s0 == Advance(s)
    IN IF movement.success
       THEN LET s1 == record_movement_success(s0, movement)
                s2 == Emit(s1, Event("movement_executed", "", FALSE, delta, "", s1))
            IN [s2 EXCEPT !.pattern_state = 1 - @]
       ELSE LET s1 == record_movement_failure(s0, movement)
                error_msg == IF movement.error_message # None
                             THEN movement.error_message[1] ELSE "Unknown error"
                s2 == Emit(s1, Event("movement_failed", "", FALSE, delta, error_msg, s1))
            IN IF should_auto_stop(s1)
               THEN LET s3 == MovementEngine_stop(s2)
                    IN IF s3.raised # "none"
                       THEN [s3 EXCEPT !.raised = "none"]
                       ELSE [Emit(s3, Event("auto_stopped", "", FALSE, <<0, 0>>, "", s3))
                                EXCEPT !.auto_stop = TRUE]
               ELSE s2

(* a get_state that hands out the manager's own object *)
get_state_internal(s) == [ref |-> "internal", obj |-> s.state]

(* get_state(): a new ApplicationState object built from the fields of    *)
(* _state.  ref tells which object the caller holds: "copy" is an object  *)
(* of its own, "internal" would be the manager's _state itself.           *)
get_state(s) ==
    [ref |-> "copy",
     obj |-> ApplicationState(s.state.is_running, s.state.last_movement_timestamp,
                              s.state.movement_count, s.state.error_count,
                              s.state.start_timestamp, s.state.instance_id)]

(* what a caller can do to an ApplicationState it holds *)
Mutations == {"set_is_running", "clear_is_running", "reset_counts", "clear_timestamps"}

mutate(a, m) ==
    CASE m = "set_is_running" -> [a EXCEPT !.is_running = TRUE]
      [] m = "clear_is_running" -> [a EXCEPT !.is_running = FALSE]
      [] m = "reset_counts" -> reset_counts(a)
      [] m = "clear_timestamps" -> [a EXCEPT !.last_movement_timestamp = None,
                                             !.start_timestamp = None]

(* the fields of the object the caller holds, as the caller reads them *)
SnapshotValue == IF snapshot[1].ref = "internal" THEN state ELSE snapshot[1].obj

----------------------------------------------------------------------------
(* core/instance_lock.py.  l holds the lock file, the FileLock of every    *)
(* instance and the value the call returns.                                *)

FileLock_init == [lock |-> None, is_acquired |-> FALSE]

LockCur ==
    [lock_file |-> lock_file, locks |-> locks, lock_calls |-> lock_calls,
     result |-> FALSE]

(* fasteners.InterProcessLock(path): a lock object that holds nothing yet *)
InterProcessLock == <<[acquired |-> FALSE]>>

(* InterProcessLock.acquire(blocking=False) by the process of instance p: *)
(* the operating system grants the file lock iff nobody holds it          *)
InterProcessLock_acquire(l, p) ==
    LET l1 == [l EXCEPT !.lock_calls = @ + 1]
    IN IF l.lock_file = 0
       THEN [l1 EXCEPT !.lock_file = p, !.locks[p].lock[1].acquired = TRUE,
                       !.result = TRUE]
       ELSE [l1 EXCEPT !.result = FALSE]

InterProcessLock_release(l, p) ==
    [l EXCEPT !.lock_file = IF @ = p THEN 0 ELSE @,
              !.locks[p].lock[1].acquired = FALSE]

(* an acquire that sets _is_acquired whatever fasteners answered *)
FileLock_acquire_ignores_answer(l, p, fails) ==
    IF l.locks[p].is_acquired
    THEN [l EXCEPT !.result = TRUE]
    ELSE LET l1 == [l EXCEPT !.locks[p].lock = InterProcessLock]
         IN IF fails
            THEN [l1 EXCEPT !.result = FALSE]
            ELSE [InterProcessLock_acquire(l1, p) EXCEPT
                     !.locks[p].is_acquired = TRUE, !.result = TRUE]

(* fails: fasteners raises inside acquire (the lock file cannot be opened) *)
FileLock_acquire(l, p, fails) ==
    IF l.locks[p].is_acquired
    THEN [l EXCEPT !.result = TRUE]
    ELSE LET l1 == [l EXCEPT !.locks[p].lock = InterProcessLock]
         IN IF fails
            THEN [l1 EXCEPT !.result = FALSE]
            ELSE LET l2 == InterProcessLock_acquire(l1, p)
                 IN IF l2.result
                    THEN [l2 EXCEPT !.locks[p].is_acquired = TRUE]
                    ELSE l2

FileLock_release(l, p) ==
    IF l.locks[p].lock # None /\ l.locks[p].is_acquired
    THEN [InterProcessLock_release(l, p) EXCEPT !.locks[p].is_acquired = FALSE]
    ELSE l

FileLock_is_locked(l, p) == l.locks[p].is_acquired

----------------------------------------------------------------------------
(* core/models.py (Configuration) and core/config.py.  A value carries its *)
(* Python type; a string that matters character by character is a sequence *)
(* of characters.                                                          *)

RunningState == {"STOPPED", "RUNNING"}

RunningState_value(member) == IF member = "RUNNING" THEN "running" ELSE "stopped"

IntValue(n) == [type |-> "int", n |-> n]
StrAsInterval == [type |-> "str", n |-> 0]

BoolValue(b) == [type |-> "bool", b |-> b]
IntAsAutoStart == [type |-> "int", b |-> TRUE]

StrValue(chars) == [type |-> "str", chars |-> chars]
IntAsVersion == [type |-> "int", chars |-> <<>>]

Configuration(interval_seconds, auto_start, last_state, version) ==
    [interval_seconds |-> interval_seconds, auto_start |-> auto_start,
     last_state |-> last_state, version |-> version]

Digits == {"0", "1", "2", "3", "4", "5", "6", "7", "8", "9"}

(* re.match(r'^\d+\.\d+\.\d+$', chars) from character i on; q is the place *)
(* in the pattern: 0 start, 1, 3, 5 inside the first, second, third number, *)
(* 2, 4 after the first, second dot, 6 after a newline that ends the text   *)
RECURSIVE semver_match(_, _, _)
semver_match(chars, i, q) ==
    IF i > Len(chars)
    THEN q \in {5, 6}
    ELSE LET c == chars[i]
         IN CASE q \in {0, 1} /\ c \in Digits -> semver_match(chars, i + 1, 1)
              [] q = 1 /\ c = "." -> semver_match(chars, i + 1, 2)
              [] q \in {2, 3} /\ c \in Digits -> semver_match(chars, i + 1, 3)
              [] q = 3 /\ c = "." -> semver_match(chars, i + 1, 4)
              [] q \in {4, 5} /\ c \in Digits -> semver_match(chars, i + 1, 5)
              [] q = 5 /\ c = "\n" /\ i = Len(chars) -> semver_match(chars, i + 1, 6)
              [] OTHER -> FALSE

(* Configuration.validate(): the list of error messages, or the TypeError *)
(* of a comparison or of re.match on a value of another type              *)
validate(c) ==
    IF c.interval_seconds.type # "int"
    THEN [raised |-> "TypeError", errors |-> <<>>]
    ELSE IF c.version.type # "str"
    THEN [raised |-> "TypeError", errors |-> <<>>]
    ELSE [raised |-> "none",
          errors |->
             (IF MIN_INTERVAL <= c.interval_seconds.n
                   /\ c.interval_seconds.n <= MAX_INTERVAL
              THEN <<>> ELSE <<"interval_seconds">>)
             \o (IF c.auto_start.type = "bool" THEN <<>> ELSE <<"auto_start">>)
             \o (IF c.last_state \in RunningState THEN <<>> ELSE <<"last_state">>)
             \o (IF semver_match(c.version.chars, 1, 0) THEN <<>> ELSE <<"version">>)]

create_default ==
    Configuration(IntValue(DEFAULT_INTERVAL), BoolValue(FALSE), "STOPPED",
                  StrValue(<<"1", ".", "0", ".", "0">>))

(* the text of a file: syntax is "object" for a JSON object, "array" for  *)
(* JSON that is not an object, "garbage" for text that is not JSON; a key *)
(* of the object is None when absent                                      *)
Document(syntax, interval_seconds, auto_start, last_state, version) ==
    [syntax |-> syntax, interval_seconds |-> interval_seconds,
     auto_start |-> auto_start, last_state |-> last_state, version |-> version]

(* a save that writes the name of the enum member *)
to_json_enum_name(config) ==
    Document("object", <<config.interval_seconds>>, <<config.auto_start>>,
             <<config.last_state>>, <<config.version>>)

(* the dictionary save() builds and json.dump writes *)
to_json(config) ==
    Document("object", <<config.interval_seconds>>, <<config.auto_start>>,
             <<RunningState_value(config.last_state)>>, <<config.version>>)

(* the Configuration load() builds from the parsed object *)
from_json(data) ==
    Configuration(
        IF data.interval_seconds = None
        THEN IntValue(DEFAULT_INTERVAL) ELSE data.interval_seconds[1],
        IF data.auto_start = None THEN BoolValue(FALSE) ELSE data.auto_start[1],
        IF (IF data.last_state = None THEN "stopped" ELSE data.last_state[1]) = "running"
        THEN "RUNNING" ELSE "STOPPED",
        IF data.version = None
        THEN StrValue(<<"1", ".", "0", ".", "0">>) ELSE data.version[1])

ConfigCur ==
    [config |-> files.config, backup |-> files.backup, raised |-> "none",
     returned |-> None]

save(f, config) ==
    LET v == validate(config)
    IN IF v.raised # "none"
       THEN [f EXCEPT !.raised = v.raised]
       ELSE IF v.errors # <<>>
       THEN [f EXCEPT !.raised = "ConfigurationError"]
       ELSE [f EXCEPT !.config = <<to_json(config)>>]

(* shutil.copy2 to the .bak file, save(create_default()), ConfigurationError *)
backup_and_reset(f) ==
    LET f1 == [f EXCEPT !.backup = f.config]
        f2 == save(f1, create_default)
    IN [f2 EXCEPT !.raised = "ConfigurationError"]

load(f) ==
    IF f.config = None
    THEN LET f1 == save(f, create_default)
         IN IF f1.raised # "none" THEN f1 ELSE [f1 EXCEPT !.returned = <<create_default>>]
    ELSE LET data == f.config[1]
         IN IF data.syntax = "garbage"
            THEN backup_and_reset(f)
            ELSE IF data.syntax # "object"
            THEN [f EXCEPT !.raised = "ConfigurationError"]
            ELSE LET config == from_json(data)
                     v == validate(config)
                 IN IF v.raised # "none"
                    THEN [f EXCEPT !.raised = "ConfigurationError"]
                    ELSE IF v.errors # <<>>
                    THEN backup_and_reset(f)
                    ELSE [f EXCEPT !.returned = <<config>>]

NoConfigCall == [arg |-> None, returned |-> None]

(* the Configurations a caller passes to save *)
SaveInputs ==
    {Configuration(IntValue(n), BoolValue(a), l, StrValue(v)) :
        n \in {MIN_INTERVAL - 1, MAX_INTERVAL}, a \in BOOLEAN, l \in RunningState,
        v \in {<<"2", ".", "1", "0", ".", "3">>, <<"1", ".", "0">>}}

(* what the configuration file can hold when the program finds it *)
Documents ==
    {Document("garbage", None, None, None, None),
     Document("array", None, None, None, None)}
    \cup {Document("object", i, a, l, v) :
            i \in {None, <<IntValue(MIN_INTERVAL)>>, <<IntValue(MAX_INTERVAL + 1)>>,
                   <<StrAsInterval>>},
            a \in {None, <<IntAsAutoStart>>},
            l \in {None, <<"running">>, <<"paused">>},
            v \in {None, <<StrValue(<<"1", ".", "0">>)>>, <<IntAsVersion>>}}

----------------------------------------------------------------------------
(* controller.py, gui/main_window.py, gui/tray_icon.py and gui/widgets.py *)

(* MainWindow.show_error: a modal message box *)
show_error(s, title) == Emit(s, Event("show_error", "", FALSE, <<0, 0>>, title, s))

(* IntervalSlider.set_value: the value is clamped to the range of the slider *)
set_value(value) ==
    IF value < MIN_INTERVAL THEN MIN_INTERVAL
    ELSE IF value > MAX_INTERVAL THEN MAX_INTERVAL ELSE value

(* the file operations of the Configuration Manager on the controller's files *)
ControllerFiles(s) ==
    [config |-> s.files.config, backup |-> s.files.backup, raised |-> "none",
     returned |-> None]

(* ApplicationController._load_configuration *)
load_configuration(s) ==
    LET f == load(ControllerFiles(s))
        s1 == [s EXCEPT !.files = [config |-> f.config, backup |-> f.backup]]
    IN IF f.raised = "ConfigurationError"
       THEN show_error([s1 EXCEPT !.config = create_default], "Configuration Error")
       ELSE LET config == f.returned[1]
            IN [s1 EXCEPT !.config = config,
                          !.main_window.interval = set_value(config.interval_seconds.n),
                          !.tray_icon.interval = config.interval_seconds.n]

(* ApplicationController._save_configuration *)
save_configuration(s) ==
    LET f == save(ControllerFiles(s), s.config)
        s1 == [s EXCEPT !.files = [config |-> f.config, backup |-> f.backup]]
    IN IF f.raised = "ConfigurationError" THEN show_error(s1, "Save Error") ELSE s1

(* ApplicationController._on_start_requested *)
on_start_requested(s) ==
    IF is_running(s)
    THEN s
    ELSE LET s1 == MovementEngine_start(s, s.main_window.interval)
         IN IF s1.raised = "EngineError"
            THEN show_error([s1 EXCEPT !.raised = "none"], "Start Error")
            ELSE s1

(* ApplicationController._on_stop_requested *)
on_stop_requested(s) ==
    IF ~is_running(s)
    THEN s
    ELSE LET s1 == MovementEngine_stop(s)
         IN IF s1.raised = "EngineError"
            THEN show_error([s1 EXCEPT !.raised = "none"], "Stop Error")
            ELSE s1

(* a handler that stores and shows the interval and leaves the engine alone *)
on_interval_changed_display_only(s, interval) ==
    LET s1 == save_configuration([s EXCEPT !.config.interval_seconds = IntValue(interval)])
    IN [s1 EXCEPT !.tray_icon.interval = interval]

(* ApplicationController._on_interval_changed *)
on_interval_changed(s, interval) ==
    LET s1 == save_configuration([s EXCEPT !.config.interval_seconds = IntValue(interval)])
        s2 == [s1 EXCEPT !.tray_icon.interval = interval]
    IN IF is_running(s2)
       THEN LET s3 == update_interval(s2, interval)
            IN IF s3.raised = "EngineError"
               THEN show_error([s3 EXCEPT !.raised = "none"], "Interval Update Error")
               ELSE s3
       ELSE s2

(* the values the user selects with the slider or the spin box *)
WindowIntervals == {MIN_INTERVAL, DEFAULT_INTERVAL, MAX_INTERVAL}

(* what the configuration file holds when the controller is constructed *)
ControllerDocuments ==
    {None,
     <<Document("garbage", None, None, None, None)>>,
     <<to_json(Configuration(IntValue(MAX_INTERVAL), BoolValue(FALSE), "STOPPED",
                             StrValue(<<"1", ".", "0", ".", "0">>)))>>}

----------------------------------------------------------------------------
(* What a call leaves behind *)

Last(op, arg, s) ==
    [op |-> op, arg |-> arg, raised |-> s.raised, events |-> s.events,
     stop_entry |-> s.stop_entry, auto_stop |-> s.auto_stop,
     was_running |-> is_running(Cur), delta |-> get_next_movement_pattern(Cur),
     result |-> s.result]

(* the flags that a sequence of emissions delivers to callback cb *)
RECURSIVE DeliveredFlags(_, _)
DeliveredFlags(events, cb) ==
    IF events = <<>>
    THEN <<>>
    ELSE (IF Head(events).kind = "notify" /\ Head(events).cb = cb
          THEN <<Head(events).flag>> ELSE <<>>)
         \o DeliveredFlags(Tail(events), cb)

CommitEngine(s) ==
    /\ timer' = s.timer
    /\ current_interval' = s.current_interval
    /\ pattern_state' = s.pattern_state
    /\ state' = s.state
    /\ consecutive_errors' = s.consecutive_errors
    /\ subscribers' = s.subscribers
    /\ clock' = s.clock
    /\ snapshot' = snapshot
    /\ main_window' = s.main_window
    /\ tray_icon' = s.tray_icon
    /\ controller_config' = s.config
    /\ delivered' = delivered \o DeliveredFlags(s.events, Observer)

Commit(s) ==
    /\ CommitEngine(s)
    /\ UNCHANGED <<lockVars, configVars>>

NewRun ==
    [successes |-> 0, failures |-> 0, streak |-> 0, auto_stopped |-> 0,
     moved |-> <<0, 0>>]

Moved(d, s) ==
    LET done == {i \in 1..Len(s.events) : s.events[i].kind = "movement_executed"}
    IN IF done = {} THEN d
       ELSE LET e == s.events[CHOOSE i \in done : TRUE]
            IN <<d[1] + e.delta[1], d[2] + e.delta[2]>>

(* history of a tick: counts of this run's ticks by outcome, the current *)
(* streak of failures, the auto_stopped emissions of this run and the    *)
(* sum of the deltas this run has moved the cursor by                    *)
RunAfterTick(r, ok, s) ==
    [successes |-> IF ok THEN r.successes + 1 ELSE r.successes,
     failures |-> IF ok THEN r.failures ELSE r.failures + 1,
     streak |-> IF ok THEN 0 ELSE r.streak + 1,
     auto_stopped |-> r.auto_stopped +
        Cardinality({i \in 1..Len(s.events) : s.events[i].kind = "auto_stopped"}),
     moved |-> Moved(r.moved, s)]

----------------------------------------------------------------------------
(* The state after construction *)

Init ==
    /\ timer = None
    /\ current_interval = DEFAULT_INTERVAL
    /\ pattern_state = 0
    /\ state = ApplicationState(FALSE, None, 0, 0, None, "uuid4")
    /\ consecutive_errors = 0
    /\ subscribers = <<>>
    /\ clock = 0
    /\ last = [op |-> "init", arg |-> 0, raised |-> "none", events |-> <<>>,
               stop_entry |-> <<>>, auto_stop |-> FALSE, was_running |-> FALSE,
               delta |-> <<1, 1>>, result |-> FALSE]
    /\ run = NewRun
    /\ displacement = <<0, 0>>
    /\ calls = <<>>
    /\ snapshot = None
    /\ lock_file = 0
    /\ locks = [p \in Instances |-> FileLock_init]
    /\ lock_calls = 0
    /\ files = [config |-> None, backup |-> None]
    /\ config_call = NoConfigCall
    /\ main_window = [is_running |-> FALSE, interval |-> DEFAULT_INTERVAL]
    /\ tray_icon = [is_running |-> FALSE, interval |-> DEFAULT_INTERVAL]
    /\ controller_config = create_default
    /\ delivered = <<>>

(* MovementEngine.start(n) *)
Start ==
    \E n \in IntervalInputs :
        LET s == MovementEngine_start(Cur, n)
        IN /\ clock < MaxClock
           /\ Commit(s)
           /\ last' = Last("start", n, s)
           /\ run' = IF s.raised = "none" THEN NewRun ELSE run
           /\ calls' = <<>>
           /\ UNCHANGED displacement

(* MovementEngine.stop() *)
Stop ==
    LET s == MovementEngine_stop(Cur)
    IN /\ Commit(s)
       /\ last' = Last("stop", 0, s)
       /\ calls' = <<>>
       /\ UNCHANGED <<run, displacement>>

(* MovementEngine.update_interval(n) *)
UpdateInterval ==
    \E n \in IntervalInputs :
        LET s == update_interval(Cur, n)
        IN /\ Commit(s)
           /\ last' = Last("update_interval", n, s)
           /\ calls' = <<>>
           /\ UNCHANGED <<run, displacement>>

(* the timer fires: MovementEngine._execute_movement() *)
Tick ==
    \E ok \in BOOLEAN, msg \in ErrorMessages :
        LET s == execute_movement(Cur, ok, msg)
        IN /\ timer # None /\ timer[1].active
           /\ clock < MaxClock
           /\ ok => msg = None
           /\ Commit(s)
           /\ last' = Last("tick", IF ok THEN 1 ELSE 0, s)
           /\ run' = RunAfterTick(run, ok, s)
           /\ displacement' = Moved(displacement, s)
           /\ calls' = <<>>

(* MovementEngine.get_next_movement_pattern() *)
GetNextMovementPattern ==
    /\ Len(calls) < MaxCalls
    /\ calls' = Append(calls, get_next_movement_pattern(Cur))
    /\ last' = Last("get_next_movement_pattern", 0, Cur)
    /\ UNCHANGED <<progVars, clock, run, displacement, snapshot>>
    /\ UNCHANGED <<lockVars, configVars, guiVars, delivered>>

(* InMemoryStateManager.subscribe_state_change(cb) *)
Subscribe ==
    \E cb \in Callbacks :
        LET s == subscribe_state_change(Cur, cb)
        IN /\ Commit(s)
           /\ last' = Last("subscribe", 0, s)
           /\ calls' = <<>>
           /\ UNCHANGED <<run, displacement>>

(* InMemoryStateManager.unsubscribe_state_change(cb) *)
Unsubscribe ==
    \E cb \in Callbacks :
        LET s == unsubscribe_state_change(Cur, cb)
        IN /\ Commit(s)
           /\ last' = Last("unsubscribe", 0, s)
           /\ calls' = <<>>
           /\ UNCHANGED <<run, displacement>>

(* InMemoryStateManager.start() called by another client than the engine *)
StateManagerStart ==
    LET s == InMemoryStateManager_start(Cur)
    IN /\ clock < MaxClock
       /\ Commit(s)
       /\ last' = Last("sm_start", 0, s)
       /\ calls' = <<>>
       /\ UNCHANGED <<run, displacement>>

(* InMemoryStateManager.stop() called by another client than the engine *)
StateManagerStop ==
    LET s == InMemoryStateManager_stop(Cur)
    IN /\ Commit(s)
       /\ last' = Last("sm_stop", 0, s)
       /\ calls' = <<>>
       /\ UNCHANGED <<run, displacement>>

(* InMemoryStateManager.record_movement_failure(movement) called directly *)
RecordMovementFailure ==
    \E msg \in ErrorMessages :
        LET movement == move(Cur, <<1, 1>>, FALSE, msg)
            s1 == record_movement_failure(Advance(Cur), movement)
            s == [s1 EXCEPT !.result = should_auto_stop(s1)]
        IN /\ clock < MaxClock
           /\ Commit(s)
           /\ last' = Last("record_movement_failure", consecutive_errors, s)
           /\ calls' = <<>>
           /\ UNCHANGED <<run, displacement>>

(* InMemoryStateManager.get_state(): the caller keeps the object returned *)
GetState ==
    /\ snapshot' = <<get_state(Cur)>>
    /\ last' = Last("get_state", 0, Cur)
    /\ calls' = <<>>
    /\ UNCHANGED <<progVars, clock, run, displacement>>
    /\ UNCHANGED <<lockVars, configVars, guiVars, delivered>>

(* the caller assigns to fields of the ApplicationState it holds *)
MutateSnapshot ==
    \E m \in Mutations :
        /\ snapshot # None
        /\ IF snapshot[1].ref = "internal"
           THEN /\ state' = mutate(state, m)
                /\ snapshot' = snapshot
           ELSE /\ snapshot' = <<[snapshot[1] EXCEPT !.obj = mutate(@, m)]>>
                /\ state' = state
        /\ last' = Last("mutate_snapshot", 0, Cur)
        /\ calls' = <<>>
        /\ UNCHANGED <<timer, current_interval, pattern_state, consecutive_errors,
                       subscribers, clock, run, displacement>>
        /\ UNCHANGED <<lockVars, configVars, guiVars, delivered>>

Next ==
    \/ Start
    \/ Stop
    \/ UpdateInterval
    \/ Tick
    \/ GetNextMovementPattern
    \/ Subscribe
    \/ Unsubscribe

Spec == Init /\ [][Next]_vars

(* The timer keeps firing while it is armed: QTimer fires on every timeout *)
(* of the running event loop. A start is late enough for its run to reach  *)
(* the failure threshold before the clock of the model ends.               *)
LiveStart == clock + MAX_CONSECUTIVE_ERRORS < MaxLiveClock /\ Start
LiveTick == clock < MaxLiveClock /\ Tick

LiveNext ==
    \/ LiveStart
    \/ Stop
    \/ LiveTick
    \/ UpdateInterval

SpecLive == Init /\ [][LiveNext]_vars /\ WF_vars(LiveTick)

(* The State Manager has other clients than the engine *)
DirectStart == clock < MaxDirectClock /\ Start
DirectTick == clock < MaxDirectClock /\ Tick
DirectStateManagerStart == clock < MaxDirectClock /\ StateManagerStart
DirectRecordMovementFailure == clock < MaxDirectClock /\ RecordMovementFailure

DirectNext ==
    \/ DirectStart
    \/ Stop
    \/ DirectTick
    \/ Subscribe
    \/ Unsubscribe
    \/ DirectStateManagerStart
    \/ StateManagerStop
    \/ DirectRecordMovementFailure
    \/ UpdateInterval

SpecDirect == Init /\ [][DirectNext]_vars

(* A client reads the state with get_state() while the engine runs *)
SnapshotStart == clock < MaxSnapshotClock /\ Start
SnapshotTick == clock < MaxSnapshotClock /\ Tick

SnapshotNext ==
    \/ SnapshotStart
    \/ Stop
    \/ SnapshotTick
    \/ GetState
    \/ MutateSnapshot

SpecSnapshot == Init /\ [][SnapshotNext]_vars

(* Subscribers that unsubscribe while they are being notified *)
SubscribeReentrant ==
    \E cb \in ReentrantCallbacks :
        LET s == subscribe_state_change(Cur, cb)
        IN /\ Commit(s)
           /\ last' = Last("subscribe", 0, s)
           /\ calls' = <<>>
           /\ UNCHANGED <<run, displacement>>

ReentrantStateManagerStart == clock < MaxReentrantClock /\ StateManagerStart

ReentrantNext ==
    \/ SubscribeReentrant
    \/ ReentrantStateManagerStart
    \/ StateManagerStop

SpecReentrant == Init /\ [][ReentrantNext]_vars

(* A subscriber that only records the flags it is given, subscribed before *)
(* the first start, next to subscribers that unsubscribe when notified     *)
SubscribeObserver ==
    LET s == subscribe_state_change(Cur, Observer)
    IN /\ clock = 0
       /\ ~is_running(Cur)
       /\ Commit(s)
       /\ last' = Last("subscribe", 0, s)
       /\ calls' = <<>>
       /\ UNCHANGED <<run, displacement>>

ObserverStart == clock < MaxObserverClock /\ Start
ObserverTick == clock < MaxObserverClock /\ Tick

ObserverNext ==
    \/ SubscribeObserver
    \/ SubscribeReentrant
    \/ ObserverStart
    \/ Stop
    \/ ObserverTick

SpecObserver == Init /\ [][ObserverNext]_vars

(* The application: the controller wires the main window, the tray icon, *)
(* the engine and the State Manager                                       *)

(* the objects after _init_components and _connect_signals *)
Constructed(doc) ==
    [timer |-> None, current_interval |-> DEFAULT_INTERVAL, pattern_state |-> 0,
     state |-> ApplicationState(FALSE, None, 0, 0, None, "uuid4"),
     consecutive_errors |-> 0, subscribers |-> <<"on_state_changed">>,
     clock |-> 0, raised |-> "none", events |-> <<>>, stop_entry |-> <<>>,
     auto_stop |-> FALSE, result |-> FALSE,
     main_window |-> [is_running |-> FALSE, interval |-> DEFAULT_INTERVAL],
     tray_icon |-> [is_running |-> FALSE, interval |-> DEFAULT_INTERVAL],
     config |-> create_default, files |-> [config |-> doc, backup |-> None]]

(* ApplicationController.__init__ *)
InitController ==
    \E doc \in ControllerDocuments :
        LET s == load_configuration(Constructed(doc))
        IN /\ timer = s.timer
           /\ current_interval = s.current_interval
           /\ pattern_state = s.pattern_state
           /\ state = s.state
           /\ consecutive_errors = s.consecutive_errors
           /\ subscribers = s.subscribers
           /\ clock = s.clock
           /\ last = [op |-> "init", arg |-> 0, raised |-> s.raised,
                      events |-> s.events, stop_entry |-> <<>>, auto_stop |-> FALSE,
                      was_running |-> FALSE, delta |-> <<1, 1>>, result |-> FALSE]
           /\ run = NewRun
           /\ displacement = <<0, 0>>
           /\ calls = <<>>
           /\ snapshot = None
           /\ lock_file = 0
           /\ locks = [p \in Instances |-> FileLock_init]
           /\ lock_calls = 0
           /\ files = s.files
           /\ config_call = NoConfigCall
           /\ main_window = s.main_window
           /\ tray_icon = s.tray_icon
           /\ controller_config = s.config
           /\ delivered = <<>>

ControllerCommit(s) ==
    /\ CommitEngine(s)
    /\ files' = s.files
    /\ UNCHANGED <<lockVars, config_call>>

(* start_requested reaches ApplicationController._on_start_requested *)
StartRequested ==
    LET s == on_start_requested(Cur)
    IN /\ clock < MaxControllerClock
       /\ ControllerCommit(s)
       /\ last' = Last("start_requested", 0, s)
       /\ run' = IF is_running(s) /\ ~is_running(Cur) THEN NewRun ELSE run
       /\ calls' = <<>>
       /\ UNCHANGED displacement

(* stop_requested reaches ApplicationController._on_stop_requested *)
StopRequested ==
    LET s == on_stop_requested(Cur)
    IN /\ ControllerCommit(s)
       /\ last' = Last("stop_requested", 0, s)
       /\ calls' = <<>>
       /\ UNCHANGED <<run, displacement>>

(* MainWindow._on_toggle_clicked: the button emits stop_requested when the *)
(* window believes the engine runs, start_requested otherwise; arg is 1    *)
(* for stop_requested                                                      *)
WindowToggleClicked ==
    LET stop == main_window.is_running
        s == IF stop THEN on_stop_requested(Cur) ELSE on_start_requested(Cur)
    IN /\ clock < MaxControllerClock
       /\ ControllerCommit(s)
       /\ last' = Last("window_toggle", IF stop THEN 1 ELSE 0, s)
       /\ run' = IF is_running(s) /\ ~is_running(Cur) THEN NewRun ELSE run
       /\ calls' = <<>>
       /\ UNCHANGED displacement

(* TrayIcon._on_toggle_clicked *)
TrayToggleClicked ==
    LET stop == tray_icon.is_running
        s == IF stop THEN on_stop_requested(Cur) ELSE on_start_requested(Cur)
    IN /\ clock < MaxControllerClock
       /\ ControllerCommit(s)
       /\ last' = Last("tray_toggle", IF stop THEN 1 ELSE 0, s)
       /\ run' = IF is_running(s) /\ ~is_running(Cur) THEN NewRun ELSE run
       /\ calls' = <<>>
       /\ UNCHANGED displacement

(* the user selects another interval: the slider holds it and              *)
(* interval_changed reaches ApplicationController._on_interval_changed     *)
IntervalChanged ==
    \E v \in WindowIntervals :
        LET s == on_interval_changed([Cur EXCEPT !.main_window.interval = v], v)
        IN /\ v # main_window.interval
           /\ ControllerCommit(s)
           /\ last' = Last("interval_changed", v, s)
           /\ calls' = <<>>
           /\ UNCHANGED <<run, displacement>>

ControllerTick == clock < MaxControllerClock /\ Tick

ControllerNext ==
    \/ StartRequested
    \/ StopRequested
    \/ WindowToggleClicked
    \/ TrayToggleClicked
    \/ IntervalChanged
    \/ ControllerTick

SpecController == InitController /\ [][ControllerNext]_vars

(* Two application instances and the lock file they share *)
LockCommit(l) ==
    /\ lock_file' = l.lock_file
    /\ locks' = l.locks
    /\ lock_calls' = l.lock_calls
    /\ UNCHANGED <<engineVars, configVars>>

(* FileLock.acquire() in instance p *)
Acquire ==
    \E p \in Instances, fails \in BOOLEAN :
        LET l == FileLock_acquire(LockCur, p, fails)
        IN /\ lock_calls < MaxLockCalls
           /\ LockCommit(l)
           /\ last' = Last("acquire", p, [Cur EXCEPT !.result = l.result])

(* FileLock.release() in instance p *)
Release ==
    \E p \in Instances :
        LET l == FileLock_release(LockCur, p)
        IN /\ LockCommit(l)
           /\ last' = Last("release", p, Cur)

(* FileLock.is_locked() in instance p *)
IsLocked ==
    \E p \in Instances :
        /\ last' = Last("is_locked", p,
                        [Cur EXCEPT !.result = FileLock_is_locked(LockCur, p)])
        /\ UNCHANGED <<lockVars, engineVars, configVars>>

(* the process of instance p ends, the operating system drops its file   *)
(* lock, and a new process of the application starts with a new FileLock *)
Restart ==
    \E p \in Instances :
        LET l == [LockCur EXCEPT !.lock_file = IF @ = p THEN 0 ELSE @,
                                 !.locks[p] = FileLock_init]
        IN /\ LockCommit(l)
           /\ last' = Last("restart", p, Cur)

LockNext ==
    \/ Acquire
    \/ Release
    \/ IsLocked
    \/ Restart

SpecLock == Init /\ [][LockNext]_vars

(* The configuration file, its manager and whoever else writes the file *)
ConfigCommit(f) ==
    /\ files' = [config |-> f.config, backup |-> f.backup]
    /\ UNCHANGED <<engineVars, lockVars>>

(* JsonConfigurationManager.save(c) *)
Save ==
    \E c \in SaveInputs :
        LET f == save(ConfigCur, c)
        IN /\ ConfigCommit(f)
           /\ config_call' = [arg |-> <<c>>, returned |-> None]
           /\ last' = Last("save", 0, [Cur EXCEPT !.raised = f.raised])

(* JsonConfigurationManager.load() *)
Load ==
    LET f == load(ConfigCur)
    IN /\ ConfigCommit(f)
       /\ config_call' = [arg |-> None, returned |-> f.returned]
       /\ last' = Last("load", 0, [Cur EXCEPT !.raised = f.raised])

(* the file is written by something else than the manager *)
EditFile ==
    \E doc \in Documents :
        /\ ConfigCommit([ConfigCur EXCEPT !.config = <<doc>>])
        /\ config_call' = NoConfigCall
        /\ last' = Last("edit_file", 0, Cur)

ConfigNext ==
    \/ Save
    \/ Load
    \/ EditFile

SpecConfig == Init /\ [][ConfigNext]_vars

----------------------------------------------------------------------------
(* Properties *)

\* C1: between calls the engine's timer is armed exactly when the State
\* Manager is RUNNING, whatever calls and ticks came before and whether they
\* succeeded or failed.
C1_TimerAgreesWithState == is_running(Cur) = state.is_running

C1_Witness ==
    /\ last.op = "tick" /\ last.auto_stop
    /\ ~ is_running(Cur) /\ ~ state.is_running
    /\ run.successes > 0

\* C2: a failing tick that makes fewer than 5 failures in a row leaves the
\* engine running and emits no auto_stopped; the tick that makes the 5th
\* stops the engine (timer disarmed, State Manager STOPPED) and emits
\* auto_stopped, once in that run.
C2_AutoStopAtFifthFailure ==
    /\ (last.op = "tick" /\ last.arg = 0 /\ run.streak < MAX_CONSECUTIVE_ERRORS)
          => /\ is_running(Cur) /\ state.is_running
             /\ \A i \in 1..Len(last.events) : last.events[i].kind # "auto_stopped"
             /\ run.auto_stopped = 0
    /\ (last.op = "tick" /\ last.arg = 0 /\ run.streak = MAX_CONSECUTIVE_ERRORS)
          => /\ ~ is_running(Cur) /\ timer = None /\ ~ state.is_running
             /\ Cardinality({i \in 1..Len(last.events) :
                                last.events[i].kind = "auto_stopped"}) = 1
    /\ run.auto_stopped <= 1

C2_Witness ==
    /\ last.op = "tick" /\ last.arg = 0
    /\ run.streak = MAX_CONSECUTIVE_ERRORS /\ run.failures = MAX_CONSECUTIVE_ERRORS
    /\ run.auto_stopped = 1 /\ timer = None

\* C3: the engine stops in a tick only when that tick is the 5th failure in
\* a row of its run; after 4 failures, 1 success and 4 more failures the
\* engine is still running.
C3_SuccessResetsStreak ==
    /\ (last.op = "tick" /\ (~ is_running(Cur) \/ last.auto_stop))
          => last.arg = 0 /\ run.streak = MAX_CONSECUTIVE_ERRORS
    /\ (last.op = "tick" /\ run.streak < MAX_CONSECUTIVE_ERRORS)
          => is_running(Cur) /\ ~ last.auto_stop

C3_Witness ==
    /\ last.op = "tick" /\ run.successes = 1
    /\ run.failures = 2 * (MAX_CONSECUTIVE_ERRORS - 1)
    /\ run.streak = MAX_CONSECUTIVE_ERRORS - 1
    /\ is_running(Cur) /\ state.is_running

\* C4: start(n) with n in [10,300] on an engine that is not running succeeds
\* and leaves the engine running: timer armed at n*1000 ms, pattern at its
\* initial phase, State Manager RUNNING.
C4_StartInRange ==
    (last.op = "start" /\ ~ last.was_running
        /\ last.arg >= MIN_INTERVAL /\ last.arg <= MAX_INTERVAL)
    => /\ last.raised = "none"
       /\ is_running(Cur)
       /\ timer[1].interval = last.arg * 1000
       /\ current_interval = last.arg
       /\ pattern_state = 0
       /\ get_next_movement_pattern(Cur) = <<1, 1>>
       /\ state.is_running

C4_Witness ==
    /\ last.op = "start" /\ ~ last.was_running /\ last.arg = MAX_INTERVAL
    /\ last.raised = "none" /\ last.delta = <<-1, -1>>
    /\ is_running(Cur)

\* C5 as stated: start(n) with n outside [10,300] fails with EngineError and
\* afterwards is_running() is false, and no subscriber is notified.
C5_Original ==
    (last.op = "start" /\ (last.arg < MIN_INTERVAL \/ last.arg > MAX_INTERVAL))
    => /\ last.raised = "EngineError"
       /\ ~ is_running(Cur)
       /\ ~ state.is_running
       /\ \A i \in 1..Len(last.events) : last.events[i].kind # "notify"

\* C5 amended: start(n) with n outside [10,300] fails with EngineError and
\* changes nothing: is_running() keeps its value (false on an engine that was
\* not running), the State Manager is not started and no subscriber is
\* notified.
C5_StartOutOfRange ==
    [][(last'.op = "start"
          /\ (last'.arg < MIN_INTERVAL \/ last'.arg > MAX_INTERVAL))
       => /\ last'.raised = "EngineError"
          /\ UNCHANGED progVars
          /\ (~ last'.was_running => (timer' = None /\ ~ state'.is_running))
          /\ \A i \in 1..Len(last'.events) : last'.events[i].kind # "notify"]_vars

C5_Witness ==
    /\ last.op = "start" /\ last.arg = MIN_INTERVAL - 1
    /\ last.raised = "EngineError" /\ ~ last.was_running
    /\ timer = None /\ ~ state.is_running /\ Len(subscribers) > 0

\* C6: start on a running engine fails with EngineError and changes nothing:
\* the engine stays running, timer period, stored interval and pattern phase
\* keep their values, counters and start_timestamp are not reset, and no
\* subscriber is notified.
C6_DoubleStartRejected ==
    [][(last'.op = "start" /\ timer # None /\ timer[1].active)
       => /\ last'.raised = "EngineError"
          /\ timer' = timer /\ timer'[1].active
          /\ current_interval' = current_interval
          /\ pattern_state' = pattern_state
          /\ state' = state
          /\ consecutive_errors' = consecutive_errors
          /\ subscribers' = subscribers
          /\ \A i \in 1..Len(last'.events) : last'.events[i].kind # "notify"]_vars

C6_Witness ==
    /\ last.op = "start" /\ last.was_running /\ last.raised = "EngineError"
    /\ last.arg = MIN_INTERVAL /\ current_interval = MAX_INTERVAL
    /\ is_running(Cur) /\ pattern_state = 1 /\ state.movement_count > 0
    /\ Len(subscribers) > 0

\* C7 as stated: every call of get_next_movement_pattern() returns the
\* opposite of the call before it, the first of two calls in sequence (1,1)
\* and the second (-1,-1).
C7_Original ==
    /\ \A i \in 1..(Len(calls) - 1) :
          calls[i + 1] = <<-calls[i][1], -calls[i][2]>>
    /\ (Len(calls) >= 2 /\ run.successes = 0)
          => calls[1] = <<1, 1>> /\ calls[2] = <<-1, -1>>

\* C7 amended: get_next_movement_pattern() returns the delta of the current
\* phase and does not advance it: (+1,+1) after construction, after each
\* start and after an even number of successful ticks of the run, (-1,-1)
\* after an odd number; calls with no successful tick in between return the
\* same value, and the deltas of an even number of successful ticks of one
\* run sum to (0,0).
C7_PatternFollowsSuccessfulTicks ==
    /\ \A i \in 1..Len(calls) :
          calls[i] = IF run.successes % 2 = 0 THEN <<1, 1>> ELSE <<-1, -1>>
    /\ run.successes % 2 = 0 => run.moved = <<0, 0>>
    /\ run.successes % 2 = 1 => run.moved = <<1, 1>>

C7_Witness ==
    /\ Len(calls) >= 2 /\ run.successes = 3
    /\ calls[1] = <<-1, -1>> /\ calls[2] = <<-1, -1>>

\* C8: the sum of the deltas of all successful moves, over all runs, is
\* (0,0) or (1,1).
C8_CursorStaysNearOrigin ==
    displacement = <<0, 0>> \/ displacement = <<1, 1>>

\* C9: movement_count is the number of successful ticks and error_count the
\* number of failed ticks since the most recent successful start.
C9_CountsMatchTicks ==
    /\ state.movement_count = run.successes
    /\ state.error_count = run.failures

C9_Witness ==
    /\ last.op = "tick" /\ state.is_running
    /\ run.successes = 3 /\ run.failures = 0
    /\ state.movement_count = 3 /\ state.error_count = 0

\* C10: a stop, called or reached through auto-stop, leaves movement_count,
\* error_count, last_movement_timestamp and start_timestamp as it found
\* them; only is_running changes.
C10_StopPreservesCounters ==
    (last.stop_entry # None /\ last.raised = "none")
    => /\ last.stop_entry[1].is_running /\ ~ state.is_running
       /\ state.movement_count = last.stop_entry[1].movement_count
       /\ state.error_count = last.stop_entry[1].error_count
       /\ state.last_movement_timestamp = last.stop_entry[1].last_movement_timestamp
       /\ state.start_timestamp = last.stop_entry[1].start_timestamp
       /\ state = [last.stop_entry[1] EXCEPT !.is_running = FALSE]

C10_Witness ==
    /\ last.op = "stop" /\ last.raised = "none" /\ last.stop_entry # None
    /\ state.movement_count = 3 /\ state.error_count = 2
    /\ state.last_movement_timestamp # None

\* C11: every successful start sets movement_count, error_count and the
\* consecutive-error counter to 0 and stamps start_timestamp with the time
\* of the start, whatever the previous run left; the consecutive-error
\* counter therefore counts only failures of the current run.
C11_StartResetsCounters ==
    /\ (last.op = "start" /\ last.raised = "none")
          => /\ state.movement_count = 0
             /\ state.error_count = 0
             /\ consecutive_errors = 0
             /\ state.start_timestamp = <<clock - 1>>
    /\ consecutive_errors = run.streak
    /\ consecutive_errors <= run.failures

C11_Witness ==
    /\ last.op = "start" /\ last.raised = "none"
    /\ state.last_movement_timestamp # None
    /\ state.start_timestamp # None /\ state.start_timestamp[1] >= MAX_CONSECUTIVE_ERRORS
    /\ state.movement_count = 0 /\ consecutive_errors = 0

\* C12: InMemoryStateManager.start() while RUNNING and stop() while STOPPED
\* raise StateError, change no field of the manager and notify no subscriber.
C12_InvalidTransitionRejected ==
    [][/\ (last'.op = "sm_start" /\ state.is_running)
            => /\ last'.raised = "StateError"
               /\ UNCHANGED <<state, consecutive_errors, subscribers, clock>>
               /\ last'.events = <<>>
       /\ (last'.op = "sm_stop" /\ ~ state.is_running)
            => /\ last'.raised = "StateError"
               /\ UNCHANGED <<state, consecutive_errors, subscribers, clock>>
               /\ last'.events = <<>>]_vars

C12_Witness ==
    /\ last.op = "sm_start" /\ last.raised = "StateError"
    /\ state.is_running /\ state.error_count > 0 /\ consecutive_errors > 0
    /\ Len(subscribers) > 0

\* C13: update_interval(v) with v in [10,300] on a running engine sets the
\* period of the armed timer to v*1000 ms within the call and leaves the
\* engine running; ticks do not change the period, so the next tick and the
\* ticks after it come at the new period.
C13_UpdateIntervalReprograms ==
    /\ [](  (last.op = "update_interval" /\ last.was_running
               /\ last.arg >= MIN_INTERVAL /\ last.arg <= MAX_INTERVAL)
            => /\ last.raised = "none"
               /\ is_running(Cur) /\ state.is_running
               /\ timer[1].interval = last.arg * 1000
               /\ current_interval = last.arg)
    /\ [][(last'.op = "tick" /\ timer' # None)
            => timer' = timer /\ current_interval' = current_interval]_vars

C13_Witness ==
    /\ last.op = "update_interval" /\ last.was_running /\ last.arg = MIN_INTERVAL
    /\ last.raised = "none" /\ is_running(Cur)
    /\ timer[1].interval = MIN_INTERVAL * 1000
    /\ run.successes > 0 /\ run.failures > 0

\* C14: update_interval(v) with v outside [10,300] raises EngineError and
\* leaves the stored interval, the timer period and the running state as
\* they were, on a running engine and on a stopped one.
C14_UpdateIntervalOutOfRange ==
    [][(last'.op = "update_interval"
          /\ (last'.arg < MIN_INTERVAL \/ last'.arg > MAX_INTERVAL))
       => /\ last'.raised = "EngineError"
          /\ current_interval' = current_interval
          /\ timer' = timer
          /\ state' = state
          /\ UNCHANGED progVars]_vars

C14_Witness ==
    /\ last.op = "update_interval" /\ last.arg = MAX_INTERVAL + 1
    /\ last.raised = "EngineError" /\ last.was_running
    /\ is_running(Cur) /\ current_interval = MIN_INTERVAL

\* C15: MovementEngine.stop() on an engine that is not running raises
\* EngineError without calling the State Manager: no field changes and no
\* subscriber is notified, also when the State Manager is RUNNING.
C15_StopWhenNotRunning ==
    [][(last'.op = "stop" /\ ~ (timer # None /\ timer[1].active))
       => /\ last'.raised = "EngineError"
          /\ last'.stop_entry = None
          /\ last'.events = <<>>
          /\ UNCHANGED progVars]_vars

C15_Witness ==
    /\ last.op = "stop" /\ last.raised = "EngineError" /\ ~ last.was_running
    /\ state.is_running /\ timer = None /\ Len(subscribers) > 0

\* C16: record_movement_failure adds one to error_count and one to the
\* consecutive-error counter, returns true iff the counter is then >= 5,
\* leaves is_running and every other field alone and notifies nobody, in
\* RUNNING and in STOPPED.
C16_RecordFailure ==
    [][last'.op = "record_movement_failure"
       => /\ state' = [state EXCEPT !.error_count = @ + 1]
          /\ consecutive_errors' = consecutive_errors + 1
          /\ last'.result = (consecutive_errors + 1 >= 5)
          /\ last'.events = <<>>
          /\ last'.raised = "none"
          /\ UNCHANGED <<timer, subscribers>>]_vars

C16_Witness ==
    /\ last.op = "record_movement_failure" /\ last.result
    /\ consecutive_errors = 5 /\ ~ state.is_running /\ state.error_count = 5
    /\ Len(subscribers) > 0

\* C17: when a subscriber raises during a notification the transition is
\* complete, every subscriber has been invoked for it, and neither the
\* State Manager's start/stop nor the engine's start/stop raises because
\* of it.
C17_SubscriberFailureIsolated ==
    \A i \in 1..Len(last.events) :
        (last.events[i].kind = "notify" /\ last.events[i].cb \in RaisingCallbacks)
        => /\ last.events[i].running = last.events[i].flag
           /\ state.is_running = last.events[i].flag
           /\ \A j \in 1..Len(subscribers) :
                 \E k \in 1..Len(last.events) :
                     /\ last.events[k].kind = "notify"
                     /\ last.events[k].cb = subscribers[j]
                     /\ last.events[k].flag = last.events[i].flag
           /\ last.raised = "none"
           /\ (last.op = "start" => is_running(Cur))

C17_Witness ==
    /\ last.op = "start" /\ last.raised = "none"
    /\ subscribers = <<"cb2", "cb1">>
    /\ Len(last.events) = 3
    /\ last.events[2].kind = "subscriber_error"
    /\ last.events[3].kind = "notify" /\ last.events[3].cb = "cb1"

C19_GetStateReturnsCopy ==
    /\ [](last.op = "get_state" => SnapshotValue = state)
    /\ [][/\ last'.op = "mutate_snapshot" => state' = state
          /\ (snapshot # None /\ last'.op \in {"start", "stop", "tick"})
                => SnapshotValue' = SnapshotValue]_vars

C19_Witness ==
    /\ snapshot # None /\ last.op = "tick"
    /\ SnapshotValue.movement_count = 0 /\ ~ SnapshotValue.is_running
    /\ SnapshotValue.start_timestamp = None
    /\ state.movement_count = 2 /\ state.is_running

\* C20: when State Manager.start() fails inside MovementEngine.start (the
\* State Manager is RUNNING and the timer is not armed), start raises
\* EngineError and the timer it armed is disarmed again: is_running() is
\* false after the call.
C20_FailedStartDisarms ==
    /\ (last.op = "start" /\ ~ last.was_running /\ last.raised # "none"
          /\ last.arg >= MIN_INTERVAL /\ last.arg <= MAX_INTERVAL)
       => /\ last.raised = "EngineError"
          /\ state.is_running
          /\ timer = None /\ ~ is_running(Cur)
    /\ (last.op = "start" /\ last.raised # "none" /\ ~ last.was_running)
       => ~ is_running(Cur)

C20_Witness ==
    /\ last.op = "start" /\ last.raised = "EngineError" /\ ~ last.was_running
    /\ last.arg = MIN_INTERVAL /\ state.is_running
    /\ timer = None /\ ~ is_running(Cur)

\* C21: MovementEngine.start, stop and update_interval raise nothing but
\* EngineError: misuse (double start, stop when not running, interval out of
\* range) and a refusal of the State Manager both end in EngineError, and a
\* StateError never leaves the engine.
C21_OnlyEngineError ==
    last.op \in {"start", "stop", "update_interval"}
    => /\ last.raised \in {"none", "EngineError"}
       /\ last.raised # "StateError"
       /\ (last.op = "start" /\ last.was_running) => last.raised = "EngineError"
       /\ (last.op = "stop" /\ ~ last.was_running) => last.raised = "EngineError"
       /\ (last.op \in {"start", "update_interval"}
              /\ (last.arg < MIN_INTERVAL \/ last.arg > MAX_INTERVAL))
           => last.raised = "EngineError"
       /\ (last.op = "stop" /\ last.was_running /\ last.stop_entry = None)
           => last.raised = "EngineError"

C21_Witness ==
    /\ last.op = "stop" /\ last.was_running /\ last.raised = "EngineError"
    /\ ~ state.is_running /\ run.successes > 0

\* C22: the engine is not running after construction, after a stop() that
\* returned, after an auto-stop and after a failed start; only a successful
\* start makes it running again, and a tick fires only while it is running,
\* so the Mouse Controller is not invoked in between.
C22_NoTickWhileStopped ==
    /\ []((\/ last.op = "init"
           \/ last.op = "stop" /\ last.raised = "none"
           \/ last.op = "tick" /\ last.auto_stop
           \/ last.op = "start" /\ last.raised # "none" /\ ~ last.was_running)
          => ~ is_running(Cur))
    /\ [][(~ is_running(Cur) /\ timer' # None /\ timer'[1].active)
            => last'.op = "start" /\ last'.raised = "none"]_vars
    /\ [][last'.op = "tick" => is_running(Cur)]_vars

C22_Witness ==
    /\ last.op = "update_interval" /\ ~ last.was_running /\ last.raised = "none"
    /\ ~ is_running(Cur) /\ timer = None
    /\ run.successes > 0 /\ ~ state.is_running

\* C23: a tick never raises: when the stop inside the auto-stop fails (the
\* State Manager is already STOPPED at the threshold tick) the handler
\* returns normally, the timer is disarmed and auto_stopped is not emitted.
C23_AutoStopErrorSwallowed ==
    /\ last.op = "tick" => last.raised = "none"
    /\ (last.op = "tick" /\ last.arg = 0
          /\ consecutive_errors >= MAX_CONSECUTIVE_ERRORS /\ ~ last.auto_stop)
       => /\ last.raised = "none"
          /\ last.stop_entry = None
          /\ timer = None
          /\ \A i \in 1..Len(last.events) : last.events[i].kind # "auto_stopped"

C23_Witness ==
    /\ last.op = "tick" /\ last.arg = 0 /\ ~ last.auto_stop
    /\ consecutive_errors = MAX_CONSECUTIVE_ERRORS
    /\ last.raised = "none" /\ timer = None /\ ~ state.is_running

\* C24: is_locked() returns True whenever the lock file is held, by this
\* instance or by another one, and False otherwise.
C24_IsLockedSeesAnyHolder ==
    last.op = "is_locked" => (last.result = (lock_file # 0))

\* C25: at most one instance holds the lock: acquire() returns True for an
\* instance only while no other instance holds it, until the holder
\* releases; a repeated acquire() by the holder returns True without asking
\* the operating system again, and release() by an instance that does not
\* hold the lock changes nothing.
C25_SingleHolder ==
    /\ [](/\ Cardinality({p \in Instances : locks[p].is_acquired}) <= 1
          /\ \A p \in Instances : locks[p].is_acquired => lock_file = p)
    /\ [][\A p \in Instances :
            /\ (last'.op = "acquire" /\ last'.arg = p
                   /\ \E q \in Instances \ {p} : locks[q].is_acquired)
               => /\ ~ last'.result
                  /\ ~ locks'[p].is_acquired
                  /\ lock_file' = lock_file
            /\ (last'.op = "acquire" /\ last'.arg = p /\ last'.result)
               => locks'[p].is_acquired /\ lock_file' = p
            /\ (last'.op = "acquire" /\ last'.arg = p /\ locks[p].is_acquired)
               => last'.result /\ UNCHANGED lockVars
            /\ (last'.op = "release" /\ last'.arg = p /\ ~ locks[p].is_acquired)
               => UNCHANGED lockVars
            /\ (last'.op = "release" /\ last'.arg = p /\ locks[p].is_acquired)
               => lock_file' = 0 /\ ~ locks'[p].is_acquired]_vars

C25_Witness ==
    /\ last.op = "acquire" /\ last.arg = 2 /\ ~ last.result
    /\ locks[1].is_acquired /\ ~ locks[2].is_acquired /\ lock_file = 1
    /\ locks[2].lock # None /\ lock_calls >= 3

\* C26: save(c) of a valid Configuration succeeds and the load() after it
\* returns a Configuration equal to c; save(c) of an invalid one raises
\* ConfigurationError and leaves the file as it was.
C26_SaveLoadRoundTrip ==
    /\ []((last.op = "save" /\ last.raised = "none")
          => /\ validate(config_call.arg[1]).errors = <<>>
             /\ load(ConfigCur).raised = "none"
             /\ load(ConfigCur).returned = config_call.arg)
    /\ []((last.op = "save" /\ validate(config_call.arg[1]).errors = <<>>)
          => last.raised = "none")
    /\ [][(last'.op = "save" /\ validate(config_call'.arg[1]).errors # <<>>)
            => last'.raised = "ConfigurationError" /\ files' = files]_vars
    /\ [][(last.op = "save" /\ last.raised = "none" /\ last'.op = "load")
            => /\ last'.raised = "none"
               /\ config_call'.returned = config_call.arg]_vars

C26_Witness ==
    /\ last.op = "load" /\ last.raised = "none"
    /\ config_call.returned =
          <<Configuration(IntValue(MAX_INTERVAL), BoolValue(TRUE), "RUNNING",
                          StrValue(<<"2", ".", "1", "0", ".", "3">>))>>
    /\ files.backup # None

\* C27: a load() that fails on a file with corrupted JSON or invalid values
\* raises ConfigurationError, has backed the file up and replaced it with
\* the default configuration, and the load() that follows succeeds and
\* returns the default (interval 30, auto_start false, STOPPED, 1.0.0).
C27_LoadRecovers ==
    (last.op = "load" /\ last.raised # "none")
    => /\ last.raised = "ConfigurationError"
       /\ files.backup # None
       /\ files.config = <<to_json(create_default)>>
       /\ load(ConfigCur).raised = "none"
       /\ load(ConfigCur).returned = <<create_default>>

\* C28: within a run the delta of a tick is (+1,+1) when the run has had an
\* even number of successful ticks and (-1,-1) when odd, so successful ticks
\* alternate starting with (+1,+1) after each start; a failed tick leaves
\* the phase where it was, and the tick after it attempts the same delta.
C28_DeltasAlternate ==
    [][last'.op = "tick"
       => /\ last'.events[1].kind \in {"movement_executed", "movement_failed"}
          /\ last'.events[1].delta =
                IF run.successes % 2 = 0 THEN <<1, 1>> ELSE <<-1, -1>>
          /\ last'.events[1].delta = last'.delta
          /\ pattern_state' =
                IF last'.arg = 1 THEN 1 - pattern_state ELSE pattern_state]_vars

C28_Witness ==
    /\ last.op = "tick" /\ last.arg = 0 /\ last.delta = <<-1, -1>>
    /\ run.successes = 1 /\ run.failures = 2 /\ pattern_state = 1
    /\ is_running(Cur)

\* C29: when a callback unsubscribes itself or another callback while it is
\* being notified, every callback that is still subscribed when the
\* notification ends has been invoked once for that transition.
C29_NotifiedDespiteUnsubscribe ==
    (last.op \in {"sm_start", "sm_stop"} /\ last.raised = "none")
    => \A j \in 1..Len(subscribers) :
          Cardinality({k \in 1..Len(last.events) :
                          /\ last.events[k].kind = "notify"
                          /\ last.events[k].cb = subscribers[j]}) = 1

\* C30: stop() on a running engine disarms the timer before it calls the
\* State Manager: the subscribers notified by the stop see the timer
\* disarmed, and when the State Manager refuses (already STOPPED) stop()
\* raises EngineError with the timer disarmed all the same, so is_running()
\* is false after every stop() on a running engine.
C30_StopDisarmsFirst ==
    (last.op = "stop" /\ last.was_running)
    => /\ timer = None /\ ~ is_running(Cur)
       /\ (last.raised = "EngineError") = (last.stop_entry = None)
       /\ (last.raised = "none") = (last.stop_entry # None)
       /\ \A i \in 1..Len(last.events) :
              last.events[i].kind = "notify" => ~ last.events[i].armed

C30_Witness ==
    /\ last.op = "stop" /\ last.was_running /\ last.raised = "EngineError"
    /\ last.stop_entry = None /\ timer = None /\ Len(subscribers) > 0

\* C31: a subscriber notified during MovementEngine.start gets true and
\* finds the timer armed; one notified during MovementEngine.stop or an
\* auto-stop gets false and finds the timer disarmed.
C31_SubscribersSeeConsistentEngine ==
    \A i \in 1..Len(last.events) :
        last.events[i].kind = "notify"
        => /\ last.op = "start"
                => last.events[i].flag /\ last.events[i].armed
           /\ last.op \in {"stop", "tick"}
                => ~ last.events[i].flag /\ ~ last.events[i].armed
           /\ last.op \in {"start", "stop", "tick"}
                => last.events[i].armed = last.events[i].running

C31_Witness ==
    /\ last.op = "start" /\ last.raised = "none" /\ Len(subscribers) = 2
    /\ last.events[1].kind = "notify" /\ last.events[1].flag
    /\ last.events[1].armed /\ state.last_movement_timestamp # None

\* C32: every failed tick emits movement_failed once, first, after the
\* failure was counted and with the timer still armed; in the threshold
\* tick the subscribers are then notified with false with the timer
\* disarmed, and auto_stopped comes last, never while the engine is running.
C32_AutoStopOrder ==
    /\ (last.op = "tick" /\ last.arg = 0)
       => /\ Len(last.events) >= 1
          /\ last.events[1].kind = "movement_failed"
          /\ last.events[1].errors = run.streak
          /\ last.events[1].armed /\ last.events[1].running
          /\ \A i \in 2..Len(last.events) : last.events[i].kind # "movement_failed"
    /\ (last.op = "tick" /\ last.auto_stop)
       => /\ last.events[1].errors = MAX_CONSECUTIVE_ERRORS
          /\ last.events[Len(last.events)].kind = "auto_stopped"
          /\ \A i \in 2..(Len(last.events) - 1) :
                /\ last.events[i].kind \in {"notify", "subscriber_error"}
                /\ ~ last.events[i].flag /\ ~ last.events[i].armed
          /\ \A j \in 1..Len(subscribers) :
                \E i \in 2..(Len(last.events) - 1) :
                    last.events[i].kind = "notify" /\ last.events[i].cb = subscribers[j]
    /\ \A i \in 1..Len(last.events) :
          last.events[i].kind = "auto_stopped"
          => ~ last.events[i].armed /\ ~ last.events[i].running
             /\ i = Len(last.events)

C32_Witness ==
    /\ last.op = "tick" /\ last.auto_stop /\ subscribers = <<"cb1", "cb2">>
    /\ Len(last.events) = 5
    /\ last.events[2].kind = "notify" /\ last.events[5].kind = "auto_stopped"

\* C34: whatever start, stop and update_interval calls were made, accepted
\* or rejected, the stored interval is within [10,300] and an armed timer
\* has the period of the stored interval times 1000 ms.
C34_IntervalInRange ==
    /\ current_interval >= MIN_INTERVAL /\ current_interval <= MAX_INTERVAL
    /\ is_running(Cur) => timer[1].interval = current_interval * 1000

C34_Witness ==
    /\ last.op = "update_interval" /\ last.raised = "EngineError"
    /\ last.arg = MIN_INTERVAL - 1 /\ is_running(Cur)
    /\ current_interval = MAX_INTERVAL /\ timer[1].interval = MAX_INTERVAL * 1000
    /\ run.successes > 0

\* C35: the consecutive-error counter is never above error_count, and
\* between calls it is between 0 and 4 whenever the engine is running.
C35_ConsecutiveErrorsBounded ==
    /\ consecutive_errors <= state.error_count
    /\ consecutive_errors >= 0
    /\ is_running(Cur) => consecutive_errors <= MAX_CONSECUTIVE_ERRORS - 1

C35_Witness ==
    /\ is_running(Cur) /\ consecutive_errors = MAX_CONSECUTIVE_ERRORS - 1
    /\ state.error_count = MAX_CONSECUTIVE_ERRORS /\ state.movement_count = 1

\* C37: last_movement_timestamp is never cleared once it is set: only a
\* successful tick changes it, and start() leaves it as the previous run
\* left it while it resets the two counters.
C37_LastMovementTimestampKept ==
    /\ [][state.last_movement_timestamp # None
            => state'.last_movement_timestamp # None]_vars
    /\ [][last'.op = "start"
            => state'.last_movement_timestamp = state.last_movement_timestamp]_vars
    /\ [][state'.last_movement_timestamp # state.last_movement_timestamp
            => last'.op = "tick" /\ last'.arg = 1]_vars

C37_Witness ==
    /\ last.op = "tick" /\ last.arg = 0 /\ run.successes = 0
    /\ state.movement_count = 0 /\ state.last_movement_timestamp # None

(* C33: if the Mouse Controller fails on every move, then with the timer    *)
(* firing fairly a running engine eventually stops by itself, on the fifth  *)
(* tick of its run, and it stays stopped until start is called; a tick      *)
(* whose move succeeds never stops the engine                               *)
C33_EveryMoveFails == last.op = "tick" => last.arg = 0

C33_StoppedByItself ==
    /\ ~is_running(Cur)
    /\ last.op = "tick" /\ last.auto_stop
    /\ run.failures = MAX_CONSECUTIVE_ERRORS

C33_FailingEngineStops ==
    /\ ([](C33_EveryMoveFails /\ last.op # "stop"))
           => (is_running(Cur) ~> C33_StoppedByItself)
    /\ []((last.op = "tick" /\ last.auto_stop /\ run.successes = 0)
              => run.failures = MAX_CONSECUTIVE_ERRORS)
    /\ []((is_running(Cur) /\ run.successes = 0)
              => run.failures < MAX_CONSECUTIVE_ERRORS)
    /\ []((last.op = "tick" /\ last.arg = 1)
              => (~last.auto_stop /\ is_running(Cur)))
    /\ [][(~is_running(Cur) /\ is_running(Cur)') => last'.op = "start"]_vars

C33_Witness ==
    /\ C33_StoppedByItself
    /\ run.successes = 0

(* C36: the flags delivered to a subscriber that was subscribed before the *)
(* first start and does not call the manager alternate true, false, true,  *)
(* ... starting with true, and the last one delivered is is_running()      *)
C36_FlagsAlternate ==
    (\E i \in 1..Len(subscribers) : subscribers[i] = Observer) =>
        /\ \A i \in 1..Len(delivered) : delivered[i] = (i % 2 = 1)
        /\ delivered # <<>> => delivered[Len(delivered)] = state.is_running
        /\ delivered = <<>> => ~state.is_running

(* C38: with the controller's wiring the running flags of MainWindow and   *)
(* TrayIcon equal the State Manager's is_running and the engine's          *)
(* is_running() after every handler, a toggle click emits stop_requested   *)
(* exactly when the engine is running, and a start request while running   *)
(* and a stop request while stopped change nothing and show no error       *)
C38_GuiFlagsFollowEngine ==
    /\ [](/\ main_window.is_running = state.is_running
          /\ tray_icon.is_running = state.is_running
          /\ state.is_running = is_running(Cur))
    /\ [](last.op \in {"window_toggle", "tray_toggle"}
             => ((last.arg = 1) = last.was_running))
    /\ []((\/ last.op = "start_requested" /\ last.was_running
           \/ last.op = "stop_requested" /\ ~last.was_running)
             => (last.raised = "none" /\ last.events = <<>>))
    /\ [][(\/ last'.op = "start_requested" /\ is_running(Cur)
           \/ last'.op = "stop_requested" /\ ~is_running(Cur))
             => UNCHANGED <<progVars, guiVars, files, clock>>]_vars

C38_Witness ==
    /\ subscribers = <<"on_state_changed">>
    /\ last.op = "tick" /\ last.auto_stop
    /\ ~main_window.is_running /\ ~tray_icon.is_running

(* C39: through the controller a running engine has the interval selected *)
(* in the main window: a start request starts it with that interval, a    *)
(* change made while running reaches the engine in the same handler, and  *)
(* a change made while stopped does not start the engine                  *)
C39_EngineIntervalIsWindowInterval ==
    /\ is_running(Cur) =>
          /\ current_interval = main_window.interval
          /\ timer[1].interval = main_window.interval * MS_PER_SECOND
    /\ last.op = "interval_changed" =>
          /\ last.arg = main_window.interval
          /\ is_running(Cur) = last.was_running
          /\ last.raised = "none"
    /\ (last.op \in {"start_requested", "window_toggle", "tray_toggle"}
          /\ ~last.was_running) =>
          /\ is_running(Cur)
          /\ current_interval = main_window.interval

C39_Witness ==
    /\ last.op = "interval_changed" /\ last.was_running
    /\ is_running(Cur)
    /\ current_interval = MAX_INTERVAL
    /\ main_window.interval = MAX_INTERVAL

====
